---- MODULE Spec2Model ----
(***************************************************************************)
(* Fog-of-war common vision (common/src/lib.rs).                           *)
(*                                                                         *)
(* A GameState is an immutable snapshot: a flat row-major tile vector, the *)
(* (width, height) of the grid, the units keyed by cell index, the players *)
(* and the teams.  Vec<T> is modelled as a function on 0..len-1, BTreeMap  *)
(* as a function on its key set, HashSet as a set, Option<T> as a record   *)
(* with an is_some flag.                                                   *)
(***************************************************************************)
EXTENDS Integers, FiniteSets, Sequences, TLC

VARIABLES
    game_state,     \* the GameState the queries run on (never mutated)
    pc,             \* position inside common_vision: "idle", "loop", "done"
    visible_units,  \* common_vision's working unit map
    visible_tiles,  \* common_vision's working tile set
    counter,        \* common_vision's pass counter
    exit,           \* how common_vision left its loop: "none", "guard", "converged"
    result,         \* the value common_vision returned
    query           \* the last neighbors / vision_from_tiles / ... call and its value

vars == <<game_state, pc, visible_units, visible_tiles, counter, exit, result, query>>

(***************************************************************************)
(* Bounds of the model.                                                    *)
(***************************************************************************)
\* most units on a snapshot the solver runs on
MaxUnits == 2
\* largest grid side and largest finite distance of the neighbors queries
GridMaxSide == 3
GridMaxDistance == 4

(***************************************************************************)
(* usize arithmetic.                                                       *)
(***************************************************************************)
\* The ceiling saturating_add clamps to.  TLC's integers end at 2^31 - 1, which
\* stands for usize::MAX: every coordinate of the model lies far below it.
UsizeMax == 2147483647

min(a, b) == IF a <= b THEN a ELSE b

max(a, b) == IF a >= b THEN a ELSE b

saturating_sub(a, b) == IF a >= b THEN a - b ELSE 0

saturating_add(a, b) == IF a > UsizeMax - b THEN UsizeMax ELSE a + b

(***************************************************************************)
(* The catalogs: map/mod.rs, unit/mod.rs, officer/mod.rs.                  *)
(***************************************************************************)
TileKind == {"Plain", "Mountain", "Forest", "River", "Road", "Bridge", "Sea",
             "Shoal", "Reef", "City", "Base", "Airport", "Harbour",
             "HeadQuarters", "Pipe", "Silo", "CommunicationsTower", "Laboratory"}

hides_units(tile) == tile \in {"Forest", "Reef"}

UnitKind == {"AntiAir", "Apc", "Artillery", "BattleCopter", "BattleShip",
             "BlackBoat", "BlackBomb", "Bomber", "Carrier", "Cruiser", "Fighter",
             "Infantry", "Lander", "MediumTank", "Mech", "MegaTank", "Missile",
             "NeoTank", "PipeRunner", "Recon", "Rocket", "Stealth", "Submarine",
             "TransportCopter", "Tank"}

vision(kind) ==
    CASE kind = "AntiAir" -> 2
      [] kind = "Apc" -> 1
      [] kind = "Artillery" -> 1
      [] kind = "BattleCopter" -> 3
      [] kind = "BattleShip" -> 2
      [] kind = "BlackBoat" -> 1
      [] kind = "BlackBomb" -> 1
      [] kind = "Bomber" -> 2
      [] kind = "Carrier" -> 4
      [] kind = "Cruiser" -> 3
      [] kind = "Fighter" -> 2
      [] kind = "Infantry" -> 2
      [] kind = "Lander" -> 1
      [] kind = "MediumTank" -> 1
      [] kind = "Mech" -> 2
      [] kind = "MegaTank" -> 1
      [] kind = "Missile" -> 5
      [] kind = "NeoTank" -> 1
      [] kind = "PipeRunner" -> 4
      [] kind = "Recon" -> 5
      [] kind = "Rocket" -> 1
      [] kind = "Stealth" -> 4
      [] kind = "Submarine" -> 5
      [] kind = "TransportCopter" -> 2
      [] kind = "Tank" -> 3

PowerKind == {"None", "Normal", "Super"}

OfficerKind == {"Andy", "Hachi", "Jake", "Max", "Nell", "Rachel", "Sami", "Colin",
                "Grit", "Olaf", "Sasha", "Drake", "Eagle", "Javier", "Jess",
                "Grimm", "Kanbei", "Sensei", "Sonja", "Adder", "Flak", "Hawke",
                "Jugger", "Kindle", "Koal", "Lash", "Sturm", "VonBolt"}

(***************************************************************************)
(* Option<T>.                                                              *)
(***************************************************************************)
None == [is_some |-> FALSE]

Some(v) == [is_some |-> TRUE, value |-> v]

UnitState(player, stealthed, kind) ==
    [player |-> player, stealthed |-> stealthed, kind |-> kind]

(***************************************************************************)
(* GameState::neighbors: the cells within `distance` of `location`.        *)
(***************************************************************************)
neighbors_chebyshev(gs, location, distance) ==
    LET width == gs.map_dimensions[1]
        height == gs.map_dimensions[2]
        x == location % width
        y == location \div width
        ws == saturating_sub(x, distance)
                .. (min(width, saturating_add(saturating_add(x, distance), 1)) - 1)
        hs == saturating_sub(y, distance)
                .. (min(height, saturating_add(saturating_add(y, distance), 1)) - 1)
    IN  {h * width + w : w \in ws, h \in hs}

neighbors_ring(gs, location, distance) ==
    LET width == gs.map_dimensions[1]
        height == gs.map_dimensions[2]
        x == location % width
        y == location \div width
        ws == saturating_sub(x, distance)
                .. (min(width, saturating_add(saturating_add(x, distance), 1)) - 1)
        hs == saturating_sub(y, distance)
                .. (min(height, saturating_add(saturating_add(y, distance), 1)) - 1)
        dx(w) == saturating_sub(max(w, x), min(w, x))
        dy(h) == saturating_sub(max(h, y), min(h, y))
    IN  {c[2] * width + c[1] :
            c \in {c \in ws \X hs : dy(c[2]) + dx(c[1]) = distance}}

\* The value returned when the call returns: when neighbors_panics holds it does
\* not, and the set given here is never returned to anyone.
neighbors(gs, location, distance) ==
    LET width == gs.map_dimensions[1]
        height == gs.map_dimensions[2]
        x == location % width
        y == location \div width
        \* a Rust range a..b is empty when a >= b, as a..(b-1) is here
        ws == saturating_sub(x, distance)
                .. (min(width, saturating_add(saturating_add(x, distance), 1)) - 1)
        hs == saturating_sub(y, distance)
                .. (min(height, saturating_add(saturating_add(y, distance), 1)) - 1)
        dx(w) == saturating_sub(max(w, x), min(w, x))
        dy(h) == saturating_sub(max(h, y), min(h, y))
    IN  IF width = 0
        THEN {}
        ELSE {c[2] * width + c[1] :
                 c \in {c \in ws \X hs : dy(c[2]) + dx(c[1]) <= distance}}

\* neighbors panics when width is 0 (`location % width`: "attempt to calculate
\* the remainder with a divisor of zero"), and when `dy + dx` or `h * width + w`
\* leaves usize (an overflow check fails); its other operations saturate
neighbors_panics(gs, location, distance) ==
    LET width == gs.map_dimensions[1]
        height == gs.map_dimensions[2]
        x == location % width
        y == location \div width
        ws == saturating_sub(x, distance)
                .. (min(width, saturating_add(saturating_add(x, distance), 1)) - 1)
        hs == saturating_sub(y, distance)
                .. (min(height, saturating_add(saturating_add(y, distance), 1)) - 1)
        dx(w) == saturating_sub(max(w, x), min(w, x))
        dy(h) == saturating_sub(max(h, y), min(h, y))
    IN  \/ width = 0
        \/ /\ width # 0
           /\ \E w \in ws, h \in hs :
                  \/ dy(h) > UsizeMax - dx(w)
                  \/ /\ dy(h) + dx(w) <= distance
                     /\ h * width > UsizeMax - w

(***************************************************************************)
(* GameState::vision_from_tiles: what the unit on `location` reveals.      *)
(***************************************************************************)
\* the match on self.players.get(unit.player): <<owner_vision, forests_revealed>>
owner_modifier_first_player(gs, player) ==
    IF 0 \in DOMAIN gs.players
    THEN LET p == gs.players[0]
         IN  CASE p.officer = "Sonja" /\ p.power = "Super" -> <<2, TRUE>>
               [] p.officer = "Sonja" /\ p.power = "Normal" -> <<2, TRUE>>
               [] p.officer = "Sonja" /\ p.power = "None" -> <<1, FALSE>>
               [] OTHER -> <<0, FALSE>>
    ELSE <<0, FALSE>>

owner_modifier_flat(gs, player) ==
    IF player \in DOMAIN gs.players
    THEN LET p == gs.players[player]
         IN  CASE p.officer = "Sonja" /\ p.power = "Super" -> <<2, TRUE>>
               [] p.officer = "Sonja" /\ p.power = "Normal" -> <<1, FALSE>>
               [] p.officer = "Sonja" /\ p.power = "None" -> <<1, FALSE>>
               [] OTHER -> <<0, FALSE>>
    ELSE <<0, FALSE>>

owner_modifier(gs, player) ==
    IF player \in DOMAIN gs.players
    THEN LET p == gs.players[player]
         IN  CASE p.officer = "Sonja" /\ p.power = "Super" -> <<2, TRUE>>
               [] p.officer = "Sonja" /\ p.power = "Normal" -> <<2, TRUE>>
               [] p.officer = "Sonja" /\ p.power = "None" -> <<1, FALSE>>
               [] OTHER -> <<0, FALSE>>
    ELSE <<0, FALSE>>

\* self.units.get(&neighbor).map(|unit_state| unit_state.stealthed).unwrap_or(false)
stealthed_at(gs, cell) ==
    IF cell \in DOMAIN gs.units THEN gs.units[cell].stealthed ELSE FALSE

\* self.map.get(neighbor).map(|tile| tile.hides_units()).unwrap_or(false)
hidden_at(gs, cell) ==
    IF cell \in DOMAIN gs.map THEN hides_units(gs.map[cell]) ELSE FALSE

vision_from_tiles_no_adjacency(gs, location) ==
    IF location \notin DOMAIN gs.units
    THEN None
    ELSE LET unit == gs.units[location]
             modifier == owner_modifier(gs, unit.player)
             vision_range == vision(unit.kind) + modifier[1]
         IN  Some([player |-> unit.player,
                   tiles |-> {n \in neighbors(gs, location, vision_range) :
                                 /\ ~stealthed_at(gs, n)
                                 /\ ~(hidden_at(gs, n) /\ ~modifier[2])}])

vision_from_tiles(gs, location) ==
    IF location \notin DOMAIN gs.units
    THEN None
    ELSE LET unit == gs.units[location]
             modifier == owner_modifier(gs, unit.player)
             forests_revealed == modifier[2]
             vision_range == vision(unit.kind) + modifier[1]
             \* Always reveal adjacent tiles (even if forest / stealthed)
             adjacent == neighbors(gs, location, 1)
             distant == {n \in neighbors(gs, location, vision_range) :
                            /\ ~stealthed_at(gs, n)
                            /\ ~(hidden_at(gs, n) /\ ~forests_revealed)}
         IN  Some([player |-> unit.player, tiles |-> adjacent \cup distant])

\* vision_from_tiles panics when one of its two neighbors calls does (the u8
\* sum of the range stays below 256: at most 5 + 2)
vision_from_tiles_panics(gs, location) ==
    /\ location \in DOMAIN gs.units
    /\ \/ neighbors_panics(gs, location, 1)
       \/ neighbors_panics(gs, location,
                           vision(gs.units[location].kind)
                           + owner_modifier(gs, gs.units[location].player)[1])

(***************************************************************************)
(* GameState::vision_for_units: per cell, per team, who sees the cell.     *)
(***************************************************************************)
\* map.insert(player, index) for every team in index order: a later team
\* overwrites an earlier one
player_to_team_map(gs) ==
    [player \in UNION {gs.teams[index] : index \in DOMAIN gs.teams} |->
        CHOOSE index \in DOMAIN gs.teams :
            /\ player \in gs.teams[index]
            /\ \A later \in DOMAIN gs.teams :
                   player \in gs.teams[later] => later <= index]

\* the (location, player, team, tiles) of the units of `units` that have a
\* team: the iterations of the loop that reach the inserts
sightings(gs, units) ==
    LET map == player_to_team_map(gs)
        sighting(location) ==
            LET seen == vision_from_tiles(gs, location)
            IN  IF seen.is_some /\ seen.value.player \in DOMAIN map
                THEN {[location |-> location, team |-> map[seen.value.player],
                       tiles |-> seen.value.tiles]}
                ELSE {}
    IN  UNION {sighting(location) : location \in DOMAIN units}

vision_for_units_whole_map(gs, units) ==
    LET seen == sightings(gs, gs.units)
    IN  [panicked |->
            \/ \E location \in DOMAIN units : vision_from_tiles_panics(gs, location)
            \/ \E s \in seen :
                   \E tile \in s.tiles :
                       tile \notin DOMAIN gs.map \/ s.team \notin DOMAIN gs.teams,
         vision_data |->
            [tile \in DOMAIN gs.map |->
                [team \in DOMAIN gs.teams |->
                    IF \E s \in seen : s.team = team /\ tile \in s.tiles
                    THEN {tile}
                    ELSE {}]]]

\* `panicked`: one of the two expect() calls found nothing ("Tile was not in
\* vision_state", "Team was not in watchers"); otherwise vision_data is the
\* table returned, map.len() rows of teams.len() sets
vision_for_units(gs, units) ==
    LET seen == sightings(gs, units)
    IN  [panicked |->
            \/ \E location \in DOMAIN units : vision_from_tiles_panics(gs, location)
            \/ \E s \in seen :
                   \E tile \in s.tiles :
                       tile \notin DOMAIN gs.map \/ s.team \notin DOMAIN gs.teams,
         vision_data |->
            [tile \in DOMAIN gs.map |->
                [team \in DOMAIN gs.teams |->
                    IF \E s \in seen : s.team = team /\ tile \in s.tiles
                    THEN {tile}
                    ELSE {}]]]

(***************************************************************************)
(* GameState::common_vision.                                               *)
(***************************************************************************)
num_teams_with_vision_any(teams) ==
    IF \E team \in DOMAIN teams : teams[team] # {}
    THEN Cardinality(DOMAIN teams)
    ELSE 0

\* teams.into_iter().filter(|units| !units.is_empty()).count()
num_teams_with_vision(teams) ==
    Cardinality({team \in DOMAIN teams : teams[team] # {}})

RECURSIVE prune_from_tile_first(_, _, _, _, _, _)
prune_from_tile_first(gs, vision_data, location, units, tiles, vision_changed) ==
    IF location \notin DOMAIN vision_data
    THEN [units |-> units, tiles |-> tiles, vision_changed |-> vision_changed]
    ELSE IF num_teams_with_vision(vision_data[location]) = Cardinality(DOMAIN gs.teams)
         THEN prune_from_tile_first(gs, vision_data, location + 1, units, tiles,
                                    vision_changed)
         ELSE IF vision_changed
              THEN prune_from_tile_first(gs, vision_data, location + 1, units, tiles, TRUE)
              ELSE IF location \in tiles
                   THEN prune_from_tile_first(gs, vision_data, location + 1, units,
                                              tiles \ {location}, TRUE)
                   ELSE IF location \in DOMAIN units
                        THEN prune_from_tile_first(gs, vision_data, location + 1,
                                                   [l \in DOMAIN units \ {location} |->
                                                       units[l]],
                                                   tiles, TRUE)
                        ELSE prune_from_tile_first(gs, vision_data, location + 1, units,
                                                   tiles, FALSE)

\* The body of the `for (location, teams) in ...enumerate()` loop from
\* `location` on.  `||` short-circuits: once vision_changed is true neither
\* remove is evaluated, and a removed unit leaves its tile in place.
RECURSIVE prune_from(_, _, _, _, _, _)
prune_from(gs, vision_data, location, units, tiles, vision_changed) ==
    IF location \notin DOMAIN vision_data
    THEN [units |-> units, tiles |-> tiles, vision_changed |-> vision_changed]
    ELSE IF num_teams_with_vision(vision_data[location]) = Cardinality(DOMAIN gs.teams)
         THEN prune_from(gs, vision_data, location + 1, units, tiles, vision_changed)
         ELSE IF vision_changed
              THEN prune_from(gs, vision_data, location + 1, units, tiles, TRUE)
              ELSE IF location \in DOMAIN units
                   THEN prune_from(gs, vision_data, location + 1,
                                   [l \in DOMAIN units \ {location} |-> units[l]],
                                   tiles, TRUE)
                   ELSE IF location \in tiles
                        THEN prune_from(gs, vision_data, location + 1, units,
                                        tiles \ {location}, TRUE)
                        ELSE prune_from(gs, vision_data, location + 1, units,
                                        tiles, FALSE)

\* one pass of the solver: lines 194-209
solver_pass(gs, units, tiles) ==
    LET watched == vision_for_units(gs, units)
    IN  IF watched.panicked
        THEN [panicked |-> TRUE, units |-> units, tiles |-> tiles,
              vision_changed |-> FALSE]
        ELSE [panicked |-> FALSE] @@
             prune_from(gs, watched.vision_data, 0, units, tiles, FALSE)

\* the loop `for counter in 0..=self.units.len()` from `counter` on
RECURSIVE solve_from(_, _, _, _)
solve_from(gs, count, units, tiles) ==
    IF count = Cardinality(DOMAIN gs.units)
    THEN [exit |-> "guard", value |-> {}]
    ELSE LET after == solver_pass(gs, units, tiles)
         IN  IF after.panicked
             THEN [exit |-> "panic", value |-> {}]
             ELSE IF after.vision_changed
                  THEN solve_from(gs, count + 1, after.units, after.tiles)
                  ELSE [exit |-> "converged", value |-> after.tiles]

common_vision(gs) == solve_from(gs, 0, gs.units, DOMAIN gs.map)

(***************************************************************************)
(* The snapshots the model runs on.                                        *)
(***************************************************************************)
Vec(S, len) == [0 .. len - 1 -> S]

GameState(map, map_dimensions, units, players, teams) ==
    [map |-> map, map_dimensions |-> map_dimensions, units |-> units,
     players |-> players, teams |-> teams]

\* the BTreeMaps with keys among `cells`, at most `most` of them
UnitMaps(cells, states, most) ==
    UNION {[keys -> states] : keys \in {k \in SUBSET cells : Cardinality(k) <= most}}

\* the team vectors that partition `members` into non-empty teams
TeamPartitions(members) ==
    UNION {{t \in Vec(SUBSET members \ {{}}, n) :
               /\ UNION {t[i] : i \in DOMAIN t} = members
               /\ \A i, j \in DOMAIN t : i # j => t[i] \cap t[j] = {}} :
           n \in 1 .. Cardinality(members)}

PlayerEntry(officer, power) ==
    [country |-> "OrangeStar", officer |-> officer, power |-> power]

\* the grids, terrain, unit kinds and officers the solver is run on
SolverShapes == {<<1, 1>>, <<2, 1>>, <<1, 2>>, <<3, 1>>, <<2, 2>>}
SolverTiles == {"Plain", "Forest"}
SolverUnitStates ==
    {UnitState(p, s, k) : p \in 0 .. 1, s \in {FALSE}, k \in {"Artillery", "Infantry"}}
SolverPlayers == {PlayerEntry("Andy", "None"), PlayerEntry("Sonja", "Normal")}

\* well-formed snapshots: width * height tiles, units on cells of the grid,
\* every owner a player, the teams a partition of the players
SolverSnapshot(gs) ==
    \E d \in SolverShapes :
        \E m \in Vec(SolverTiles, d[1] * d[2]) :
            \E u \in UnitMaps(0 .. d[1] * d[2] - 1, SolverUnitStates, MaxUnits) :
                \E p \in Vec(SolverPlayers, 2) :
                    \E t \in TeamPartitions(0 .. 1) :
                        gs = GameState(m, d, u, p, t)

NoUnits == [l \in {} |-> UnitState(0, FALSE, "Infantry")]

NoQuery == [op |-> "none"]

(***************************************************************************)
(* common_vision, pass by pass.                                            *)
(***************************************************************************)
\* lines 180-186
Call ==
    /\ pc = "idle"
    /\ pc' = "loop"
    /\ visible_units' = game_state.units
    /\ visible_tiles' = DOMAIN game_state.map
    /\ counter' = 0
    /\ UNCHANGED <<game_state, exit, result, query>>

\* lines 189-192: the pass counter reached its bound
Guard ==
    /\ pc = "loop"
    /\ counter = Cardinality(DOMAIN game_state.units)
    /\ pc' = "done"
    /\ exit' = "guard"
    /\ result' = {}
    /\ UNCHANGED <<game_state, visible_units, visible_tiles, counter, query>>

\* lines 194-216, one pass: when it removed nothing, break and return
\* visible_tiles
Pass ==
    /\ pc = "loop"
    /\ counter # Cardinality(DOMAIN game_state.units)
    /\ \E after \in {solver_pass(game_state, visible_units, visible_tiles)} :
           /\ ~after.panicked
           /\ visible_units' = after.units
           /\ visible_tiles' = after.tiles
           /\ IF after.vision_changed
              THEN /\ counter' = counter + 1
                   /\ UNCHANGED <<pc, exit, result>>
              ELSE /\ pc' = "done"
                   /\ exit' = "converged"
                   /\ result' = after.tiles
                   /\ UNCHANGED counter
    /\ UNCHANGED <<game_state, query>>

Init ==
    /\ SolverSnapshot(game_state)
    /\ pc = "idle"
    /\ visible_units = NoUnits
    /\ visible_tiles = {}
    /\ counter = 0
    /\ exit = "none"
    /\ result = {}
    /\ query = NoQuery

Next == Call \/ Guard \/ Pass

Spec == Init /\ [][Next]_vars

(***************************************************************************)
(* The solver's contract.                                                  *)
(***************************************************************************)
\* the cells the unit on `location` reveals ({} when there is none)
revealed_by(gs, location) ==
    IF vision_from_tiles(gs, location).is_some
    THEN vision_from_tiles(gs, location).value.tiles
    ELSE {}

\* the cells not seen by every team, given the units still standing
unseen_cells(gs, units) ==
    LET vision_data == vision_for_units(gs, units).vision_data
    IN  {c \in DOMAIN gs.map :
            \E team \in DOMAIN gs.teams : vision_data[c][team] = {}}

\* The pruning algorithm as specified: every pass removes every cell not seen
\* by all teams together with the unit on it, until a pass removes nothing.
RECURSIVE specified_pruning_from(_, _, _)
specified_pruning_from(gs, units, tiles) ==
    LET unseen == unseen_cells(gs, units)
    IN  IF unseen \cap (tiles \cup DOMAIN units) = {}
        THEN tiles
        ELSE specified_pruning_from(gs,
                                    [l \in DOMAIN units \ unseen |-> units[l]],
                                    tiles \ unseen)

specified_pruning(gs) == specified_pruning_from(gs, gs.units, DOMAIN gs.map)

\* C1: for every well-formed snapshot common_vision returns exactly the set the
\* specified pruning algorithm produces (all unseen cells and their units
\* removed in each pass, until a pass removes nothing).
C1_ReturnsSpecifiedPruning ==
    pc = "done" => result = specified_pruning(game_state)

\* C2: every returned cell is, for each team, revealed by a unit of a member of
\* that team that stands on a returned cell; so a cell one team sees and another
\* does not is never returned.
C2_ResultSeenByEveryTeam ==
    pc = "done" =>
        \A c \in result :
            \A team \in DOMAIN game_state.teams :
                \E l \in DOMAIN game_state.units :
                    /\ l \in result
                    /\ game_state.units[l].player \in game_state.teams[team]
                    /\ c \in revealed_by(game_state, l)

\* a converged, non-empty result of a two-team game from which a cell that one
\* team sees was pruned
C2_Witness ==
    /\ pc = "done"
    /\ exit = "converged"
    /\ result # {}
    /\ Cardinality(DOMAIN game_state.teams) = 2
    /\ \E c \in DOMAIN game_state.map \ result :
           \E l \in DOMAIN game_state.units : c \in revealed_by(game_state, l)

\* C3: when all players are in a single team, common_vision is the union of
\* what every unit on the map reveals.
C3_SingleTeamUnion ==
    (pc = "done" /\ Cardinality(DOMAIN game_state.teams) = 1) =>
        result = UNION {revealed_by(game_state, l) : l \in DOMAIN game_state.units}

\* C4: the iteration-bound guard is never taken: common_vision always leaves
\* its loop through the pass that removed nothing.
C4_GuardNeverTaken ==
    pc = "done" => exit = "converged"

\* the snapshot with its team list reordered: position i holds team order[i]
permute_teams(gs, order) ==
    [gs EXCEPT !.teams = [i \in DOMAIN gs.teams |-> gs.teams[order[i]]]]

\* the snapshot with its player list reordered: position i holds player
\* order[i], and unit owners and team members are renumbered to match
permute_players(gs, order) ==
    LET renumbered(old) == CHOOSE i \in DOMAIN gs.players : order[i] = old
    IN  [gs EXCEPT
            !.players = [i \in DOMAIN gs.players |-> gs.players[order[i]]],
            !.units = [l \in DOMAIN gs.units |->
                          [gs.units[l] EXCEPT !.player = renumbered(gs.units[l].player)]],
            !.teams = [t \in DOMAIN gs.teams |->
                          {renumbered(old) : old \in gs.teams[t]}]]

\* C5: reordering the team list, or reordering the player list with owners and
\* memberships renumbered consistently, does not change common_vision.
C5_OrderInvariant ==
    pc = "done" =>
        /\ \A order \in Permutations(DOMAIN game_state.teams) :
               permute_teams(game_state, order) # game_state =>
                   common_vision(permute_teams(game_state, order)).value = result
        /\ \A order \in Permutations(DOMAIN game_state.players) :
               permute_players(game_state, order) # game_state =>
                   common_vision(permute_players(game_state, order)).value = result

\* a non-empty result for two teams and two players with different officers
C5_Witness ==
    /\ pc = "done"
    /\ result # {}
    /\ Cardinality(DOMAIN game_state.teams) = 2
    /\ game_state.players[0] # game_state.players[1]
    /\ \E l \in DOMAIN game_state.units : game_state.units[l].player = 1

(***************************************************************************)
(* neighbors on its own: the grids of the tests (make_map), any origin.    *)
(***************************************************************************)
\* tests::neighbors::make_map
make_map(map_tile, map_dimensions) ==
    GameState([i \in 0 .. map_dimensions[1] * map_dimensions[2] - 1 |-> map_tile],
              map_dimensions, NoUnits, <<>>, <<>>)

\* origins on the grid, origins up to a grid's length past its end, and far ones
GridOrigins(gs) ==
    (0 .. 2 * gs.map_dimensions[1] * gs.map_dimensions[2]) \cup {100, UsizeMax}

GridDistances == (0 .. GridMaxDistance) \cup {UsizeMax}

InitGrid ==
    /\ \E d \in (1 .. GridMaxSide) \X (1 .. GridMaxSide) :
           game_state = make_map("Sea", d)
    /\ pc = "idle"
    /\ visible_units = NoUnits
    /\ visible_tiles = {}
    /\ counter = 0
    /\ exit = "none"
    /\ result = {}
    /\ query = NoQuery

\* a call of neighbors(location, distance)
Neighbors(origins, distances) ==
    /\ query = NoQuery
    /\ \E location \in origins, distance \in distances :
           query' = [op |-> "neighbors", location |-> location,
                     distance |-> distance, widened |-> FALSE, narrower |-> {},
                     panicked |-> neighbors_panics(game_state, location, distance),
                     ret |-> neighbors(game_state, location, distance)]
    /\ UNCHANGED <<game_state, pc, visible_units, visible_tiles, counter, exit, result>>

\* the same origin asked again with the distance one larger
NeighborsWider ==
    /\ query # NoQuery
    /\ query.op = "neighbors"
    /\ ~query.widened
    /\ query.distance < UsizeMax
    /\ query' = [query EXCEPT
                    !.distance = query.distance + 1,
                    !.widened = TRUE,
                    !.narrower = query.ret,
                    !.panicked = neighbors_panics(game_state, query.location,
                                                  query.distance + 1),
                    !.ret = neighbors(game_state, query.location, query.distance + 1)]
    /\ UNCHANGED <<game_state, pc, visible_units, visible_tiles, counter, exit, result>>

NextGrid == Neighbors(GridOrigins(game_state), GridDistances) \/ NeighborsWider

SpecGrid == InitGrid /\ [][NextGrid]_vars

abs_diff(a, b) == IF a >= b THEN a - b ELSE b - a

\* the cells of the grid within Manhattan distance d of the point the origin
\* decomposes to
manhattan_disc(gs, origin, d) ==
    LET width == gs.map_dimensions[1]
        height == gs.map_dimensions[2]
    IN  {c \in 0 .. width * height - 1 :
            abs_diff(c % width, origin % width)
            + abs_diff(c \div width, origin \div width) <= d}

\* C7: neighbors(o, d) is exactly the set of cells h*width + w of the grid with
\* |w - (o mod width)| + |h - (o div width)| <= d, for every origin, in bounds
\* or not; so every returned index is below width*height.
C7_NeighborsIsManhattanDisc ==
    (query # NoQuery /\ query.op = "neighbors") =>
        /\ query.ret = manhattan_disc(game_state, query.location, query.distance)
        /\ \A c \in query.ret :
               c < game_state.map_dimensions[1] * game_state.map_dimensions[2]

\* an origin outside the grid that has a neighbour on it, the grid not all returned
C7_Witness ==
    /\ query # NoQuery
    /\ query.op = "neighbors"
    /\ query.location \notin DOMAIN game_state.map
    /\ query.ret # {}
    /\ query.ret # DOMAIN game_state.map

\* C8: neighbors(o, d) is a subset of neighbors(o, d + 1), for every origin and
\* distance.
C8_NeighborsMonotone ==
    (query # NoQuery /\ query.op = "neighbors" /\ query.widened) =>
        query.narrower \subseteq query.ret

\* a widening that added cells to a non-empty neighbourhood
C8_Witness ==
    /\ query # NoQuery
    /\ query.op = "neighbors"
    /\ query.widened
    /\ query.narrower # {}
    /\ query.narrower # query.ret

(***************************************************************************)
(* vision_from_tiles on its own.                                           *)
(***************************************************************************)
SightShapes == {<<2, 2>>, <<4, 1>>}

SightMaps(len) == Vec({"Plain", "Forest", "Reef"}, len)

\* the unit asked about: either owner (player 1 has no entry in `players`),
\* stealthed or not, short or longer sighted
SightUnitStates ==
    {UnitState(p, s, k) : p \in 0 .. 1, s \in BOOLEAN, k \in {"Artillery", "Infantry"}}

\* the units around it: vision_from_tiles reads only their stealth flag
BystanderStates == {UnitState(0, s, "Artillery") : s \in BOOLEAN}

SightUnitMaps(cells) ==
    {NoUnits} \cup
    UNION {{(l :> unit) @@ others :
               unit \in SightUnitStates,
               others \in UnitMaps(cells \ {l}, BystanderStates, MaxUnits - 1)} :
           l \in cells}

\* one player: an officer without a vision bonus (with or without power), or Sonja
SightPlayers ==
    {PlayerEntry("Andy", "None"), PlayerEntry("Andy", "Super"),
     PlayerEntry("Sonja", "None"), PlayerEntry("Sonja", "Normal"),
     PlayerEntry("Sonja", "Super")}

InitSight ==
    /\ \E d \in SightShapes :
           \E m \in SightMaps(d[1] * d[2]) :
               \E u \in SightUnitMaps(0 .. d[1] * d[2] - 1) :
                   \E p \in Vec(SightPlayers, 1) :
                       game_state = GameState(m, d, u, p, [i \in 0 .. 0 |-> {0}])
    /\ pc = "idle"
    /\ visible_units = NoUnits
    /\ visible_tiles = {}
    /\ counter = 0
    /\ exit = "none"
    /\ result = {}
    /\ query = NoQuery

\* the cells of the grid, of one more row below it, and the cell after that
QueryCells(gs) ==
    0 .. gs.map_dimensions[1] * gs.map_dimensions[2] + gs.map_dimensions[1]

\* a call of vision_from_tiles(location), on a cell of the grid or past it
VisionFromTiles ==
    /\ query = NoQuery
    /\ \E location \in QueryCells(game_state) :
           query' = [op |-> "vision_from_tiles", location |-> location,
                     panicked |-> vision_from_tiles_panics(game_state, location),
                     ret |-> vision_from_tiles(game_state, location)]
    /\ UNCHANGED <<game_state, pc, visible_units, visible_tiles, counter, exit, result>>

NextSight == VisionFromTiles

SpecSight == InitSight /\ [][NextSight]_vars

\* the Manhattan distance between two cells of the grid
cell_distance(gs, a, b) ==
    abs_diff(a % gs.map_dimensions[1], b % gs.map_dimensions[1])
    + abs_diff(a \div gs.map_dimensions[1], b \div gs.map_dimensions[1])

\* C9: vision_from_tiles(loc) is none iff no unit occupies loc; otherwise it
\* names the unit's owner and its cell set contains neighbors(loc, 1), loc
\* included, whatever the terrain and stealth of those cells.
C9_NoneIffNoUnitElseAdjacent ==
    (query # NoQuery /\ query.op = "vision_from_tiles") =>
        /\ query.ret = None <=> query.location \notin DOMAIN game_state.units
        /\ query.ret # None =>
              /\ query.ret.value.player = game_state.units[query.location].player
              /\ neighbors(game_state, query.location, 1) \subseteq query.ret.value.tiles
              /\ query.location \in query.ret.value.tiles
              /\ \A c \in DOMAIN game_state.map :
                     cell_distance(game_state, c, query.location) <= 1
                         => c \in query.ret.value.tiles

\* a unit without forest override next to a concealing cell and to a stealthed unit
C9_Witness ==
    /\ query # NoQuery
    /\ query.op = "vision_from_tiles"
    /\ query.ret # None
    /\ ~owner_modifier(game_state, game_state.units[query.location].player)[2]
    /\ \E c, d \in query.ret.value.tiles \ {query.location} :
           /\ hides_units(game_state.map[c])
           /\ d \in DOMAIN game_state.units
           /\ game_state.units[d].stealthed

\* the officer modifier as the claim states it: <<range bonus, forest override>>
stated_modifier(gs, player) ==
    IF player \in DOMAIN gs.players /\ gs.players[player].officer = "Sonja"
    THEN IF gs.players[player].power \in {"Normal", "Super"}
         THEN <<2, TRUE>>
         ELSE <<1, FALSE>>
    ELSE <<0, FALSE>>

\* C10: with r = base vision + officer modifier, the revealed set is exactly
\* the cells within distance 1, united with the cells within distance r that
\* hold no stealthed unit and do not conceal (or forest override is on).
C10_RevealedSetExact ==
    (query # NoQuery /\ query.op = "vision_from_tiles" /\ query.ret # None) =>
        LET unit == game_state.units[query.location]
            r == vision(unit.kind) + stated_modifier(game_state, unit.player)[1]
            override == stated_modifier(game_state, unit.player)[2]
            stealthed(c) == c \in DOMAIN game_state.units /\ game_state.units[c].stealthed
            conceals(c) == game_state.map[c] \in {"Forest", "Reef"}
        IN  query.ret.value.tiles =
                {c \in DOMAIN game_state.map :
                    \/ cell_distance(game_state, c, query.location) <= 1
                    \/ /\ cell_distance(game_state, c, query.location) <= r
                       /\ ~stealthed(c)
                       /\ (~conceals(c) \/ override)}

\* a Sonja unit under power that reveals a concealing cell two or more cells
\* away and does not reveal a stealthed unit within its range
C10_Witness ==
    /\ query # NoQuery
    /\ query.op = "vision_from_tiles"
    /\ query.ret # None
    /\ stated_modifier(game_state, game_state.units[query.location].player) = <<2, TRUE>>
    /\ \E c \in query.ret.value.tiles :
           /\ cell_distance(game_state, c, query.location) >= 2
           /\ hides_units(game_state.map[c])
    /\ \E c \in DOMAIN game_state.units \ query.ret.value.tiles :
           /\ game_state.units[c].stealthed
           /\ cell_distance(game_state, c, query.location) <= 3

(***************************************************************************)
(* Every query on any snapshot a GameState value can hold (the struct      *)
(* checks nothing): a grid without columns, a tile vector shorter or       *)
(* longer than the grid (longer in tests::common_vision::team_3x3__recon), *)
(* units on the cell past the grid, owners without a player entry or a     *)
(* team, teams that overlap or are empty.                                  *)
(***************************************************************************)
AnyShapes == {<<0, 0>>, <<0, 1>>, <<1, 1>>, <<2, 1>>, <<2, 2>>}

\* how many tiles the vector has more than the grid
AnySurplus == -1 .. 1

AnyUnitStates ==
    {UnitState(p, FALSE, k) : p \in 0 .. 1, k \in {"Artillery", "Recon"}}

\* no player at all, or player 0 alone: owner 1 has no entry
AnyPlayers == {<<>>, [i \in 0 .. 0 |-> PlayerEntry("Sonja", "Normal")]}

\* any two or fewer teams over the owners, a partition or not
AnyTeams == UNION {Vec(SUBSET (0 .. 1), n) : n \in 0 .. 2}

InitAny ==
    /\ \E d \in AnyShapes :
           \E len \in {max(0, d[1] * d[2] + surplus) : surplus \in AnySurplus} :
               \E u \in UnitMaps(0 .. d[1] * d[2], AnyUnitStates, MaxUnits) :
                   \E p \in AnyPlayers :
                       \E t \in AnyTeams :
                           game_state =
                               GameState([i \in 0 .. len - 1 |-> "Plain"], d, u, p, t)
    /\ pc = "idle"
    /\ visible_units = NoUnits
    /\ visible_tiles = {}
    /\ counter = 0
    /\ exit = "none"
    /\ result = {}
    /\ query = NoQuery

\* a call of vision_for_units(units) with the snapshot's units, all or all but
\* one, or with a key no unit stands on
VisionForUnits ==
    /\ query = NoQuery
    /\ \E keys \in {k \in SUBSET (DOMAIN game_state.units \cup {0}) :
                      Cardinality(DOMAIN game_state.units \ k) <= 1} :
           \E units \in {[l \in keys |->
                            IF l \in DOMAIN game_state.units
                            THEN game_state.units[l]
                            ELSE UnitState(0, FALSE, "Infantry")]} :
               \E watched \in {vision_for_units(game_state, units)} :
                   query' = [op |-> "vision_for_units", units |-> units,
                             panicked |-> watched.panicked,
                             ret |-> watched.vision_data]
    /\ UNCHANGED <<game_state, pc, visible_units, visible_tiles, counter, exit, result>>

\* a call of common_vision(), start to end
CommonVision ==
    /\ query = NoQuery
    /\ \E solved \in {common_vision(game_state)} :
           query' = [op |-> "common_vision", exit |-> solved.exit,
                     panicked |-> solved.exit = "panic",
                     ret |-> solved.value]
    /\ UNCHANGED <<game_state, pc, visible_units, visible_tiles, counter, exit, result>>

NextAny ==
    \/ Neighbors({0, game_state.map_dimensions[1] * game_state.map_dimensions[2],
                  UsizeMax},
                 {0, 1, UsizeMax})
    \/ VisionFromTiles
    \/ VisionForUnits
    \/ CommonVision

SpecAny == InitAny /\ [][NextAny]_vars

\* C6: no query fails: neighbors, vision_from_tiles, vision_for_units and
\* common_vision return a value on every snapshot and for every index; the
\* aggregator's two expect() lookups never miss.
C6_NoQueryPanics ==
    query # NoQuery => ~query.panicked

\* a query fails only on a grid without columns or on a tile vector shorter
\* than the grid
PanicsOnlyOffShape ==
    (query # NoQuery /\ query.panicked) =>
        \/ game_state.map_dimensions[1] = 0
        \/ Cardinality(DOMAIN game_state.map)
              < game_state.map_dimensions[1] * game_state.map_dimensions[2]

(***************************************************************************)
(* The solver's loop, pass by pass (under Spec).                           *)
(***************************************************************************)
\* a pass that removed something: the loop goes round again
NonFinalPass ==
    /\ pc = "loop"
    /\ pc' = "loop"
    /\ counter' = counter + 1

\* C11: every pass other than the converged one strictly shrinks the working
\* unit map, and so the solver reaches a pass that removes nothing within
\* unit count + 1 passes: it never leaves through the bound.
C11_PassesShrinkUnitMap ==
    /\ [][NonFinalPass =>
              Cardinality(DOMAIN visible_units') < Cardinality(DOMAIN visible_units)]_vars
    /\ [](pc = "done" => exit = "converged")

\* the cells whose count of teams with non-empty visibility differs from the
\* team count, given the working unit map
failing_cells(gs, units) ==
    LET vision_data == vision_for_units(gs, units).vision_data
    IN  {c \in DOMAIN gs.map :
            num_teams_with_vision(vision_data[c]) # Cardinality(DOMAIN gs.teams)}

\* C12: a pass removes every failing cell from the working tile set, and the
\* unit on it from the working unit map, in that same pass.
C12_PassRemovesEveryFailingCell ==
    [][(pc = "loop" /\ counter # Cardinality(DOMAIN game_state.units)) =>
           /\ visible_tiles' = visible_tiles \ failing_cells(game_state, visible_units)
           /\ DOMAIN visible_units' =
                  DOMAIN visible_units \ failing_cells(game_state, visible_units)]_vars

\* C14: after every pass (units on cells of the grid) the working unit map is
\* a sub-map of the snapshot's unit map, the working tile set is a subset of
\* the cell indices, every unit still in the working map stands on a cell
\* still in the working tile set, and neither ever regains an element.
C14_LoopInvariant ==
    /\ [](pc \in {"loop", "done"} =>
              /\ DOMAIN visible_units \subseteq DOMAIN game_state.units
              /\ \A l \in DOMAIN visible_units : visible_units[l] = game_state.units[l]
              /\ visible_tiles \subseteq DOMAIN game_state.map
              /\ DOMAIN visible_units \subseteq visible_tiles)
    /\ [][pc = "loop" =>
              /\ visible_tiles' \subseteq visible_tiles
              /\ DOMAIN visible_units' \subseteq DOMAIN visible_units]_vars

\* two passes done: a unit was removed, then its tile, and another unit stands
C14_Witness ==
    /\ pc = "loop"
    /\ visible_units # NoUnits
    /\ \E l \in DOMAIN game_state.units :
           l \notin DOMAIN visible_units /\ l \notin visible_tiles

(***************************************************************************)
(* vision_for_units on its own: grids with their tiles (or one tile more), *)
(* units on the grid, teams that share no player and may leave a player    *)
(* out.                                                                    *)
(***************************************************************************)
TableShapes == {<<2, 2>>, <<3, 1>>}

\* Plain everywhere, or with one Forest
TableMaps(len) ==
    {m \in Vec(SolverTiles, len) :
        Cardinality({i \in DOMAIN m : m[i] = "Forest"}) <= 1}

TableUnitStates ==
    {UnitState(p, FALSE, k) : p \in 0 .. 1, k \in {"Artillery", "Infantry"}}

TablePlayers == <<PlayerEntry("Andy", "None"), PlayerEntry("Sonja", "Normal")>>

\* two or fewer teams over the owners, no owner in two of them
TableTeams ==
    {t \in UNION {Vec(SUBSET (0 .. 1), n) : n \in 0 .. 2} :
        \A i, j \in DOMAIN t : i # j => t[i] \cap t[j] = {}}

InitTable ==
    /\ \E d \in TableShapes :
           \E m \in TableMaps(d[1] * d[2]) :
               \E surplus \in 0 .. 1 :
                   \E u \in UnitMaps(0 .. d[1] * d[2] - 1, TableUnitStates, MaxUnits) :
                       \E t \in TableTeams :
                           game_state =
                               GameState([i \in 0 .. d[1] * d[2] + surplus - 1 |->
                                             IF i \in DOMAIN m THEN m[i] ELSE "Plain"],
                                         d, u, TablePlayers, t)
    /\ pc = "idle"
    /\ visible_units = NoUnits
    /\ visible_tiles = {}
    /\ counter = 0
    /\ exit = "none"
    /\ result = {}
    /\ query = NoQuery

NextTable == VisionForUnits

SpecTable == InitTable /\ [][NextTable]_vars

\* C13: vision_for_units(unit_map) returns map-length rows of team-count
\* columns, and the entry for cell c and team t is non-empty iff some unit of
\* unit_map whose owner is a member of team t reveals c (per
\* vision_from_tiles); a unit whose owner is in no team marks nothing.
C13_TableIsTeamUnion ==
    (query # NoQuery /\ query.op = "vision_for_units") =>
        LET \* <<owner, cell>> for every cell a unit of unit_map reveals
            reveals == UNION {{<<query.units[l].player, c>> :
                                  c \in revealed_by(game_state, l)} :
                              l \in DOMAIN query.units}
        IN  /\ ~query.panicked
            /\ DOMAIN query.ret = DOMAIN game_state.map
            /\ \A c \in DOMAIN query.ret :
                   /\ DOMAIN query.ret[c] = DOMAIN game_state.teams
                   /\ \A t \in DOMAIN game_state.teams :
                          query.ret[c][t] # {} <=>
                              \E owner \in game_state.teams[t] : <<owner, c>> \in reveals

\* two teams, a cell marked for one of them and not for the other, and a unit
\* in unit_map that reveals cells and whose owner has no team
C13_Witness ==
    /\ query # NoQuery
    /\ query.op = "vision_for_units"
    /\ \E l \in DOMAIN query.units :
           /\ revealed_by(game_state, l) # {}
           /\ \A t \in DOMAIN game_state.teams :
                  query.units[l].player \notin game_state.teams[t]
    /\ \E c \in DOMAIN query.ret :
           \E t1, t2 \in DOMAIN game_state.teams :
               query.ret[c][t1] # {} /\ query.ret[c][t2] = {}

====
